---- MODULE Spec2Model ----
(***************************************************************************)
(* Model of the sub-layer addressing utility of TheseusLayer               *)
(* (modules/image/classification/esnet_x0_5_imagenet/model.py):            *)
(* parse_pattern_str, upgrade_sublayer, set_identity and stop_after,       *)
(* acting on a graph of paddle.nn layers; of the capture of sub-layer      *)
(* outputs (init_res, update_res and the forward post hooks); and of the   *)
(* entry points of the hub modules darknet53_imagenet and                  *)
(* pixel2style2pixel (classification, style_transfer, run_cmd).            *)
(*                                                                         *)
(* Strings are sequences of one-character strings, so that str.split and   *)
(* int() are computed rather than assumed.  Layers live in a heap indexed  *)
(* by object identity; a layer's _sub_layers (an OrderedDict) is a         *)
(* sequence of [name, id] entries in insertion order.                      *)
(***************************************************************************)
EXTENDS Integers, Sequences, FiniteSets, TLC

VARIABLES layers, segs, pat, call, ncalls, hook, api

vars == <<layers, segs, pat, call, ncalls, hook, api>>

(***************************************************************************)
(* Bounds                                                                  *)
(***************************************************************************)
\* length of the Sequential held by the root attribute "s"
SeqLen == 5
\* number of dot-separated segments of the patterns tried
MaxSegs == 2
\* number of calls made on one graph
MaxCalls == 2
\* number of patterns in the list given to upgrade_sublayer
MaxPatterns == 2

(***************************************************************************)
(* Python strings                                                          *)
(***************************************************************************)
Digits == <<"0", "1", "2", "3", "4", "5", "6", "7", "8", "9">>

IsDigit(c) == \E i \in 1..Len(Digits) : Digits[i] = c

DigitVal(c) == (CHOOSE i \in 1..Len(Digits) : Digits[i] = c) - 1

HasChar(s, c) == \E i \in 1..Len(s) : s[i] = c

\* position of the first occurrence of c in s, 0 when there is none
FirstPos(s, c) ==
  IF HasChar(s, c) THEN CHOOSE i \in 1..Len(s) : s[i] = c /\ \A j \in 1..(i - 1) : s[j] # c
  ELSE 0

RECURSIVE Split(_, _)
\* s.split(c) for a one-character separator: never an empty list
Split(s, c) ==
  IF ~HasChar(s, c) THEN <<s>>
  ELSE LET p == FirstPos(s, c)
       IN  <<SubSeq(s, 1, p - 1)>> \o Split(SubSeq(s, p + 1, Len(s)), c)

RECURSIVE DigitsVal(_)
DigitsVal(s) ==
  IF s = <<>> THEN 0 ELSE 10 * DigitsVal(SubSeq(s, 1, Len(s) - 1)) + DigitVal(s[Len(s)])

AllDigits(s) == s # <<>> /\ \A i \in 1..Len(s) : IsDigit(s[i])

\* int(s): an optional sign followed by decimal digits, ValueError otherwise
\* (over the characters used here: letters, digits, "-", "+")
PyInt(s) ==
  IF AllDigits(s) THEN [ok |-> TRUE, val |-> DigitsVal(s)]
  ELSE IF s # <<>> /\ s[1] \in {"-", "+"} /\ AllDigits(Tail(s))
       THEN [ok |-> TRUE, val |-> IF s[1] = "-" THEN 0 - DigitsVal(Tail(s)) ELSE DigitsVal(Tail(s))]
       ELSE [ok |-> FALSE, val |-> 0]

RECURSIVE NatStr(_)
\* str(n) for n >= 0
NatStr(n) == IF n < 10 THEN <<Digits[n + 1]>> ELSE NatStr(n \div 10) \o <<Digits[(n % 10) + 1]>>

(***************************************************************************)
(* Layer graph                                                             *)
(***************************************************************************)
\* the absent value: None as an index is <<>>, a string index s is <<s>>
None == <<>>

Some(s) == <<s>>

\* no layer (getattr's default)
NoLayer == 0

\* self, the TheseusLayer the methods are called on
Root == 1

Leaf(cls) == [cls |-> cls, sub |-> <<>>]

\* name in layer._sub_layers
HasSub(h, id, name) == \E i \in 1..Len(h[id].sub) : h[id].sub[i].name = name

SubPos(h, id, name) == CHOOSE i \in 1..Len(h[id].sub) : h[id].sub[i].name = name

\* layer._sub_layers[name]
SubLayer(h, id, name) == h[id].sub[SubPos(h, id, name)].id

\* getattr(layer, name, None), over the attributes that are sub-layers
GetAttr(h, id, name) == IF HasSub(h, id, name) THEN SubLayer(h, id, name) ELSE NoLayer

\* bool(layer): nn.Sequential defines __len__, nn.Layer defines neither
\* __bool__ nor __len__
Truthy(h, id) == IF h[id].cls = "Sequential" THEN Len(h[id].sub) > 0 ELSE TRUE

\* whether len(layer) is defined
HasLen(h, id) == h[id].cls = "Sequential"

PyLen(h, id) == Len(h[id].sub)

\* an assignment that deletes the key and inserts it again, at the end
SetSubMovesToEnd(h, id, name, new) ==
  [h EXCEPT ![id].sub =
     Append(SelectSeq(@, LAMBDA e : e.name # name), [name |-> name, id |-> new])]

\* Layer.__setattr__(name, value) with a Layer value, Sequential.__setitem__
\* (setattr(self, str(name), layer)): _sub_layers[name] = value keeps the
\* position of an existing key and appends a new one
SetSub(h, id, name, new) ==
  IF HasSub(h, id, name)
  THEN [h EXCEPT ![id].sub[SubPos(h, id, name)].id = new]
  ELSE [h EXCEPT ![id].sub = Append(@, [name |-> name, id |-> new])]

\* a fresh object
NewId(h) == Cardinality(DOMAIN h) + 1

Alloc(h, cls) == h @@ (NewId(h) :> Leaf(cls))

(***************************************************************************)
(* parse_pattern_str                                                       *)
(***************************************************************************)
\* truthiness of an index: None and '' are both false
IdxTruthy(index) == index # None /\ index[1] # <<>>

ParseOk(layer_list) == [kind |-> "ok", steps |-> layer_list, exc |-> ""]

ParseNone == [kind |-> "none", steps |-> <<>>, exc |-> ""]

ParseRaise(e) == [kind |-> "raise", steps |-> <<>>, exc |-> e]

\* pattern_list[0].split('[')[0]
TargetLayerName(seg) == IF HasChar(seg, "[") THEN Split(seg, "[")[1] ELSE seg

\* the index taken without .split(']')[0]
TargetLayerIndexKeepsBracket(seg) ==
  IF HasChar(seg, "[") THEN Some(Split(seg, "[")[2]) ELSE None

\* pattern_list[0].split('[')[1].split(']')[0]
TargetLayerIndex(seg) ==
  IF HasChar(seg, "[") THEN Some(Split(Split(seg, "[")[2], "]")[1]) ELSE None

RECURSIVE ParseLoop(_, _, _, _)
\* the while loop of parse_pattern_str
ParseLoop(h, pattern_list, parent_layer, layer_list) ==
  IF pattern_list = <<>> THEN ParseOk(layer_list)
  ELSE
    LET target_layer_name  == TargetLayerName(pattern_list[1])
        target_layer_index == TargetLayerIndex(pattern_list[1])
        target_layer       == GetAttr(h, parent_layer, target_layer_name)
    IN
    IF target_layer = NoLayer THEN ParseNone
    ELSE IF IdxTruthy(target_layer_index) /\ Truthy(h, target_layer)
    THEN
      LET n == PyInt(target_layer_index[1])
      IN
      IF ~n.ok THEN ParseRaise("ValueError")
      ELSE IF n.val < 0 THEN ParseNone
      ELSE IF ~HasLen(h, target_layer) THEN ParseRaise("TypeError")
      ELSE IF n.val >= PyLen(h, target_layer) THEN ParseNone
      ELSE IF ~HasSub(h, target_layer, target_layer_index[1]) THEN ParseRaise("KeyError")
      ELSE
        LET element == SubLayer(h, target_layer, target_layer_index[1])
        IN  ParseLoop(h, Tail(pattern_list), element,
                      Append(layer_list, [layer |-> element, name |-> target_layer_name,
                                          index |-> target_layer_index]))
    ELSE ParseLoop(h, Tail(pattern_list), target_layer,
                   Append(layer_list, [layer |-> target_layer, name |-> target_layer_name,
                                       index |-> target_layer_index]))

parse_pattern_str(h, pattern, parent_layer) ==
  LET pattern_list == Split(pattern, ".")
  IN  IF pattern_list = <<>> THEN ParseNone
      ELSE ParseLoop(h, pattern_list, parent_layer, <<>>)

(***************************************************************************)
(* set_identity and stop_after                                             *)
(***************************************************************************)
RECURSIVE IdentityFrom(_, _, _)
\* layer._sub_layers[key] = Identity() for the entries at positions i, i+1, ...
IdentityFrom(h, id, i) ==
  IF i > Len(h[id].sub) THEN h
  ELSE IdentityFrom([Alloc(h, "Identity") EXCEPT ![id].sub[i].id = NewId(h)], id, i + 1)

\* a set_identity that leaves out the loop over the indexed sequence
set_identity_name_only(h, parent_layer, layer_name, layer_index) ==
  IF ~HasSub(h, parent_layer, layer_name) THEN [h |-> h, ret |-> FALSE]
  ELSE [h   |-> IdentityFrom(h, parent_layer, SubPos(h, parent_layer, layer_name) + 1),
        ret |-> TRUE]

\* a set_identity that raises the flag before testing it, so that the match
\* itself is replaced too
set_identity_inclusive(h, parent_layer, layer_name, layer_index) ==
  IF ~HasSub(h, parent_layer, layer_name) THEN [h |-> h, ret |-> FALSE]
  ELSE
    LET h1     == IdentityFrom(h, parent_layer, SubPos(h, parent_layer, layer_name))
        target == SubLayer(h1, parent_layer, layer_name)
    IN
    IF ~IdxTruthy(layer_index) THEN [h |-> h1, ret |-> TRUE]
    ELSE IF ~HasSub(h1, target, layer_index[1]) THEN [h |-> h1, ret |-> FALSE]
    ELSE [h |-> IdentityFrom(h1, target, SubPos(h1, target, layer_index[1])), ret |-> TRUE]

set_identity(h, parent_layer, layer_name, layer_index) ==
  IF ~HasSub(h, parent_layer, layer_name) THEN [h |-> h, ret |-> FALSE]
  ELSE
    LET h1     == IdentityFrom(h, parent_layer, SubPos(h, parent_layer, layer_name) + 1)
        target == SubLayer(h, parent_layer, layer_name)
    IN
    IF ~IdxTruthy(layer_index) THEN [h |-> h1, ret |-> TRUE]
    ELSE IF ~HasSub(h1, target, layer_index[1]) THEN [h |-> h1, ret |-> FALSE]
    ELSE [h |-> IdentityFrom(h1, target, SubPos(h1, target, layer_index[1]) + 1), ret |-> TRUE]

RECURSIVE StopLoop(_, _, _, _)
\* the for loop of stop_after; level counts the levels walked
StopLoop(h, layer_list, parent_layer, level) ==
  IF layer_list = <<>> THEN [h |-> h, ret |-> TRUE, level |-> level]
  ELSE
    LET r == set_identity(h, parent_layer, layer_list[1].name, layer_list[1].index)
    IN  IF ~r.ret THEN [h |-> r.h, ret |-> FALSE, level |-> level + 1]
        ELSE StopLoop(r.h, Tail(layer_list), layer_list[1].layer, level + 1)

\* a stop_after that restores the graph when a level fails
stop_after_rollback(h, stop_layer_name) ==
  LET p == parse_pattern_str(h, stop_layer_name, Root)
  IN  IF p.kind = "raise" THEN [h |-> h, ret |-> FALSE, exc |-> p.exc, level |-> 0]
      ELSE IF p.kind = "none" \/ p.steps = <<>> THEN [h |-> h, ret |-> FALSE, exc |-> "", level |-> 0]
      ELSE LET r == StopLoop(h, p.steps, Root, 0)
           IN  [h |-> IF r.ret THEN r.h ELSE h, ret |-> r.ret, exc |-> "", level |-> r.level]

\* exc is the exception that leaves the call, "" when it returns
stop_after(h, stop_layer_name) ==
  LET p == parse_pattern_str(h, stop_layer_name, Root)
  IN  IF p.kind = "raise" THEN [h |-> h, ret |-> FALSE, exc |-> p.exc, level |-> 0]
      ELSE IF p.kind = "none" \/ p.steps = <<>> THEN [h |-> h, ret |-> FALSE, exc |-> "", level |-> 0]
      ELSE LET r == StopLoop(h, p.steps, Root, 0)
           IN  [h |-> r.h, ret |-> r.ret, exc |-> "", level |-> r.level]

(***************************************************************************)
(* upgrade_sublayer                                                        *)
(***************************************************************************)
\* the transforms tried: "same" returns the layer it is given (as the
\* Handler of update_res does), "new" builds a new layer
HandleFuncs == {"same", "new"}

\* one iteration of the for loop; st = [h, hits, invoked, exc]
UpgradeOne(st, pattern, handle_func) ==
  LET h == st.h
      p == parse_pattern_str(h, pattern, Root)
  IN
  IF p.kind = "raise" THEN [st EXCEPT !.exc = p.exc]
  ELSE IF p.kind = "none" \/ p.steps = <<>> THEN st
  ELSE
    LET layer_list       == p.steps
        n                == Len(layer_list)
        sub_layer_parent == IF n > 1 THEN layer_list[n - 1].layer ELSE Root
        sub_layer        == layer_list[n].layer
        sub_layer_name   == layer_list[n].name
        sub_layer_index  == layer_list[n].index
        h1               == IF handle_func = "new" THEN Alloc(h, "Layer") ELSE h
        new_sub_layer    == IF handle_func = "new" THEN NewId(h) ELSE sub_layer
        h2 == IF IdxTruthy(sub_layer_index)
              THEN SetSub(h1, GetAttr(h1, sub_layer_parent, sub_layer_name),
                          sub_layer_index[1], new_sub_layer)
              ELSE SetSub(h1, sub_layer_parent, sub_layer_name, new_sub_layer)
    IN  [h       |-> h2,
         hits    |-> Append(st.hits, pattern),
         invoked |-> Append(st.invoked, [layer |-> sub_layer, pattern |-> pattern,
                                         out |-> new_sub_layer]),
         exc     |-> ""]

RECURSIVE UpgradeLoop(_, _, _)
\* the loop over the patterns: the state st1 the first pattern leaves is
\* handed to the rest of the loop
UpgradeLoop(st, patterns, handle_func) ==
  IF patterns = <<>> \/ st.exc # "" THEN st
  ELSE CHOOSE x \in {UpgradeLoop(st1, Tail(patterns), handle_func) :
                       st1 \in {UpgradeOne(st, patterns[1], handle_func)}} : TRUE

upgrade_sublayer(h, layer_name_pattern, handle_func) ==
  UpgradeLoop([h |-> h, hits |-> <<>>, invoked |-> <<>>, exc |-> ""],
              layer_name_pattern, handle_func)

(***************************************************************************)
(* The layer graph the calls are made on                                   *)
(***************************************************************************)
\* self: d, s, a, b in this insertion order (not the alphabetical one);
\* s is a Sequential of SeqLen blocks (as ESNet.blocks), each with the
\* sub-layers c and dw; a has the sub-layers e, an empty Sequential, and c
\* the i-th block of s; its sub-layers c and dw follow it
BlockId(i) == 8 + 3 * i

Entry(name, id) == [name |-> name, id |-> id]

InitLayers ==
  [id \in 1..(BlockId(SeqLen) - 1) |->
     IF id = Root THEN [cls |-> "Layer",
                        sub |-> <<Entry(<<"d">>, 2), Entry(<<"s">>, 3),
                                  Entry(<<"a">>, 4), Entry(<<"b">>, 5)>>]
     ELSE IF id = 3 THEN [cls |-> "Sequential",
                          sub |-> [i \in 1..SeqLen |-> Entry(NatStr(i - 1), BlockId(i - 1))]]
     ELSE IF id = 4 THEN [cls |-> "Layer", sub |-> <<Entry(<<"e">>, 6), Entry(<<"c">>, 7)>>]
     ELSE IF id = 6 THEN Leaf("Sequential")
     ELSE IF id >= BlockId(0) /\ (id - BlockId(0)) % 3 = 0
          THEN [cls |-> "Layer", sub |-> <<Entry(<<"c">>, id + 1), Entry(<<"d", "w">>, id + 2)>>]
          ELSE Leaf("Layer")]

(***************************************************************************)
(* Patterns.  A pattern is built from a list of segments; segs keeps the   *)
(* list a pattern was written from, pat is the string the code receives.   *)
(***************************************************************************)
\* str(v)
IntStr(v) == IF v < 0 THEN <<"-">> \o NatStr(0 - v) ELSE NatStr(v)

Bracket(i) == <<"[">> \o i \o <<"]">>

\* name
PlainSeg(n) == [name |-> n, form |-> "plain", val |-> 0, text |-> n]

\* name[v]
IndexedSeg(n, v) == [name |-> n, form |-> "indexed", val |-> v, text |-> n \o Bracket(IntStr(v))]

\* name followed by something that is not [digits]
RawSeg(n, x) == [name |-> n, form |-> "raw", val |-> 0, text |-> n \o x]

RECURSIVE Join(_)
\* ".".join of the segments' texts
Join(l) ==
  IF Len(l) = 1 THEN l[1].text ELSE l[1].text \o <<".">> \o Join(Tail(l))

SegNames == {<<>>, <<"s">>, <<"a">>, <<"e">>, <<"c">>, <<"d", "w">>, <<"z">>}

\* the names tried with an index
IndexedNames == {<<"s">>, <<"a">>, <<"e">>, <<"z">>}

\* the names tried with a malformed suffix
RawNames == {<<>>, <<"s">>, <<"e">>}

RawSuffixes ==
  {<<"[">>, <<"[", "]">>, <<"[", "2">>, <<"[", "x", "]">>, <<"[", "0", "2", "]">>}

\* the segments of the patterns parse_pattern_str is tried on
AllSegs ==
  {PlainSeg(n) : n \in SegNames}
    \cup {IndexedSeg(n, v) : n \in IndexedNames, v \in (0 - 1)..SeqLen}
    \cup {RawSeg(n, x) : n \in RawNames, x \in RawSuffixes}

SegLists(S) == UNION {[1..n -> S] : n \in 1..MaxSegs}

\* the segments of the patterns the mutating calls are tried on
MutSegs ==
  {PlainSeg(<<"s">>), PlainSeg(<<"a">>), PlainSeg(<<"c">>),
   IndexedSeg(<<"s">>, 2), IndexedSeg(<<"s">>, SeqLen), IndexedSeg(<<"e">>, 0),
   IndexedSeg(<<"s">>, SeqLen - 1), IndexedSeg(<<"a">>, 0), PlainSeg(<<"z">>),
   RawSeg(<<"s">>, <<"[", "x", "]">>), RawSeg(<<"s">>, <<"[">>),
   RawSeg(<<"s">>, <<"[", "0", "2", "]">>)}

\* the other patterns of a list given to upgrade_sublayer: "z", which names
\* nothing, before the pattern and "b" after it
Before == <<PlainSeg(<<"z">>)>>

After == <<PlainSeg(<<"b">>)>>

PatternLists ==
  {l \in {<<segs>>, <<Before, segs>>, <<segs, After>>, <<Before, segs, After>>} :
     Len(l) <= MaxPatterns}

(***************************************************************************)
(* Calls                                                                   *)
(***************************************************************************)
\* the record of the last call: its arguments (arg, with the segment lists
\* they were written from in argsegs), the graph before it (pre) and what it
\* returned or raised
NoCall ==
  [op |-> "none", arg |-> <<>>, argsegs |-> <<>>, handle_func |-> "", pre |-> InitLayers,
   parsed |-> ParseNone, hits |-> <<>>, invoked |-> <<>>, ret |-> FALSE, exc |-> "",
   level |-> 0]

\* a Python value given as return_stages: None, a bool (l = <<1>> for True),
\* an int (l = <<value>>) or a list of ints; and one given as return_patterns:
\* None or a list of patterns
PyNone == [t |-> "None", l |-> <<>>]

PyBool(b) == [t |-> "bool", l |-> <<IF b THEN 1 ELSE 0>>]

PyIntV(v) == [t |-> "int", l |-> <<v>>]

PyList(l) == [t |-> "list", l |-> l]

\* the capture state of a root on which update_res was never called: the root
\* holds the empty dict its constructor made (dicts[1]), no layer carries a
\* hook (attrs), no forward pass was made (npass).  A dict is a set of
\* [key, pass, layer] entries: the value stored under key is the output that
\* layer computed in forward pass number pass.  The fields from op on record
\* the last call; ran holds the attributes of the layers carrying a hook whose
\* forward returned in the pass
NoHook ==
  [dicts |-> <<{}>>, root_dict |-> 1, root_hooked |-> FALSE, attrs |-> {},
   hits |-> <<>>, hitlayers |-> <<>>, npass |-> 0,
   op |-> "none", return_patterns |-> PyNone, return_stages |-> PyNone,
   updated |-> PyNone, exc |-> "", done |-> FALSE, ran |-> {}, result |-> {}]

\* the arguments of a call made on a hub module
NoArgs ==
  [input_path |-> None, input_file |-> None, batch_size |-> 1, top_k |-> 2,
   visualization |-> FALSE, images |-> None, paths |-> None, all_images |-> <<>>]

\* what a call did: the usage text or the message printed, the status
\* given to exit (None when exit was not called), the exception that left
\* the call, whether the inference method (classification, style_transfer)
\* was entered, the batches given to the predictor and the list returned
\* (classification), the images given to network.run, whether output_dir
\* was made, the indices of the files written and the value returned
\* (style_transfer)
NoOut ==
  [usage |-> FALSE, status |-> None, exc |-> "", inference |-> FALSE,
   batches |-> <<>>, res_list |-> <<>>,
   message |-> FALSE, runs |-> <<>>, output_dir |-> FALSE, written |-> {},
   ret |-> None]

\* the record of the last call made on a hub module
NoApi ==
  [op |-> "none", mod |-> "", args |-> NoArgs, out |-> NoOut]

Init ==
  /\ layers = InitLayers
  /\ segs \in SegLists(MutSegs)
  /\ pat = Join(segs)
  /\ call = NoCall
  /\ ncalls = 0
  /\ hook = NoHook
  /\ api = NoApi

InitParse ==
  /\ layers = InitLayers
  /\ segs \in SegLists(AllSegs)
  /\ pat = Join(segs)
  /\ call = NoCall
  /\ ncalls = 0
  /\ hook = NoHook
  /\ api = NoApi

\* a parse_pattern_str that blanks what follows the first resolved name
ParsePatternStrWrites ==
  /\ ncalls < MaxCalls
  /\ LET r == parse_pattern_str(layers, pat, Root)
     IN  /\ call' = [NoCall EXCEPT !.op = "parse", !.arg = <<pat>>, !.argsegs = <<segs>>,
                                   !.pre = layers, !.parsed = r, !.exc = r.exc]
         /\ layers' = IF r.kind = "ok"
                       THEN set_identity(layers, Root, r.steps[1].name, None).h
                       ELSE layers
  /\ ncalls' = ncalls + 1
  /\ UNCHANGED <<segs, pat, hook, api>>

\* parse_pattern_str(pat, self)
ParsePatternStr ==
  /\ ncalls < MaxCalls
  /\ call' = [NoCall EXCEPT !.op = "parse", !.arg = <<pat>>, !.argsegs = <<segs>>,
                            !.pre = layers,
                            !.parsed = parse_pattern_str(layers, pat, Root),
                            !.exc = parse_pattern_str(layers, pat, Root).exc]
  /\ ncalls' = ncalls + 1
  /\ UNCHANGED <<layers, segs, pat, hook, api>>

\* self.upgrade_sublayer(patterns, handle_func)
UpgradeSublayer ==
  /\ ncalls < MaxCalls
  /\ \E l \in PatternLists, f \in HandleFuncs :
       LET patterns == [i \in 1..Len(l) |-> Join(l[i])]
           r        == upgrade_sublayer(layers, patterns, f)
       IN  /\ layers' = r.h
           /\ call' = [NoCall EXCEPT !.op = "upgrade", !.arg = patterns, !.argsegs = l,
                                     !.handle_func = f, !.pre = layers, !.hits = r.hits,
                                     !.invoked = r.invoked, !.exc = r.exc]
  /\ ncalls' = ncalls + 1
  /\ UNCHANGED <<segs, pat, hook, api>>

\* self.stop_after(pat)
StopAfter ==
  /\ ncalls < MaxCalls
  /\ LET r == stop_after(layers, pat)
     IN  /\ layers' = r.h
         /\ call' = [NoCall EXCEPT !.op = "stop_after", !.arg = <<pat>>, !.argsegs = <<segs>>,
                                   !.pre = layers,
                                   !.parsed = parse_pattern_str(layers, pat, Root),
                                   !.ret = r.ret, !.exc = r.exc, !.level = r.level]
  /\ ncalls' = ncalls + 1
  /\ UNCHANGED <<segs, pat, hook, api>>

Next == ParsePatternStr \/ UpgradeSublayer \/ StopAfter

Spec == Init /\ [][Next]_vars

NextParse == ParsePatternStr

SpecParse == InitParse /\ [][NextParse]_vars

(***************************************************************************)
(* What a pattern denotes, read off the segment list it was written from   *)
(* (grammar: segment ("." segment)*, segment = name ["[" digits "]"]).     *)
(***************************************************************************)
RECURSIVE Walk(_, _, _, _)
\* status "ok" with the nodes reached by the segments, or the reason the
\* first segment that does not resolve fails
Walk(h, parent, l, nodes) ==
  IF l = <<>> THEN [status |-> "ok", nodes |-> nodes]
  ELSE
    LET sg == l[1]
    IN
    IF sg.form = "raw" \/ sg.name = <<>> THEN [status |-> "malformed", nodes |-> nodes]
    ELSE IF \A i \in 1..Len(h[parent].sub) : h[parent].sub[i].name # sg.name
    THEN [status |-> "unknown", nodes |-> nodes]
    ELSE
      LET child == h[parent].sub[CHOOSE i \in 1..Len(h[parent].sub) :
                                   h[parent].sub[i].name = sg.name].id
      IN
      IF sg.form = "plain" THEN Walk(h, child, Tail(l), Append(nodes, child))
      ELSE IF h[child].cls # "Sequential" THEN [status |-> "notseq", nodes |-> nodes]
      ELSE IF sg.val < 0 \/ sg.val >= Len(h[child].sub)
      THEN [status |-> "range", nodes |-> nodes]
      ELSE Walk(h, h[child].sub[sg.val + 1].id, Tail(l),
                Append(nodes, h[child].sub[sg.val + 1].id))

Denotes(h, l) == Walk(h, Root, l, <<>>)

\* the index a step records for a segment
SegIndex(sg) == IF sg.form = "indexed" THEN Some(IntStr(sg.val)) ELSE None

\* the node holding the slot a segment list's last segment names
ParentOf(h, l) ==
  IF Len(l) = 1 THEN Root ELSE Denotes(h, l).nodes[Len(l) - 1]

(***************************************************************************)
(* parse_pattern_str: claims                                               *)
(***************************************************************************)
\* the node of step k hangs under the node of step k - 1 (self for k = 1):
\* in the slot step k names, or at a position of the Sequential in that slot
StepUnder(h, steps, k) ==
  LET prev == IF k = 1 THEN Root ELSE steps[k - 1].layer
  IN  \E i \in 1..Len(h[prev].sub) :
        /\ h[prev].sub[i].name = steps[k].name
        /\ IF steps[k].index = None
           THEN h[prev].sub[i].id = steps[k].layer
           ELSE \E j \in 1..Len(h[h[prev].sub[i].id].sub) :
                  h[h[prev].sub[i].id].sub[j].id = steps[k].layer

\* C1: on a valid path of n segments parse_pattern_str returns n steps in
\* root-to-target order; step k holds the node segment k reaches, the
\* segment's name and its index string (None when unindexed), and each
\* step's node is a child of the previous step's node.
C1_ValidPathSteps ==
  (call.op = "parse" /\ Denotes(call.pre, segs).status = "ok") =>
    /\ call.parsed.kind = "ok"
    /\ Len(call.parsed.steps) = Len(segs)
    /\ \A k \in 1..Len(segs) :
         /\ k <= Len(call.parsed.steps)
         /\ call.parsed.steps[k].layer = Denotes(call.pre, segs).nodes[k]
         /\ call.parsed.steps[k].name = segs[k].name
         /\ call.parsed.steps[k].index = SegIndex(segs[k])
         /\ StepUnder(call.pre, call.parsed.steps, k)

\* "s[2].dw" resolved to (s[2], "s", "2") then (dw, "dw", None)
C1_Witness ==
  /\ call.op = "parse"
  /\ pat = <<"s", "[", "2", "]", ".", "d", "w">>
  /\ call.parsed.steps =
       <<[layer |-> BlockId(2), name |-> <<"s">>, index |-> Some(<<"2">>)],
         [layer |-> BlockId(2) + 2, name |-> <<"d", "w">>, index |-> None]>>

\* C2: a path whose first unresolvable segment carries an index < 0 or >=
\* the length of the sequence it indexes (a sequence of length 0 included)
\* makes parse_pattern_str return None, raise nothing and leave the graph
\* unchanged.
C2_OutOfRangeFailsCleanly ==
  (call.op = "parse" /\ Denotes(call.pre, segs).status = "range") =>
    (call.parsed.kind = "none" /\ layers = call.pre)

\* C3: a malformed path, an unknown attribute name and an out-of-range index
\* all make parse_pattern_str return None: it neither raises nor succeeds.
C3_FailuresReturnNone ==
  (call.op = "parse" /\ Denotes(call.pre, segs).status \in {"malformed", "unknown", "range"}) =>
    call.parsed.kind = "none"

\* C4: parse_pattern_str is read-only: whatever the path and the outcome,
\* the layer graph after the call is the graph before it.
C4_ParseReadOnly == call.op = "parse" => layers = call.pre

\* a path resolved on a graph that earlier calls have changed
C4_Witness ==
  /\ call.op = "parse"
  /\ call.parsed.kind = "ok"
  /\ Len(call.parsed.steps) = 2
  /\ call.pre # InitLayers

(***************************************************************************)
(* upgrade_sublayer: claims                                                *)
(***************************************************************************)
Names(h, id) == [i \in 1..Len(h[id].sub) |-> h[id].sub[i].name]

\* the slot <<holder, position>> the last segment of a resolving list names
SlotOf(h, l) ==
  LET sg  == l[Len(l)]
      par == ParentOf(h, l)
      pos == CHOOSE i \in 1..Len(h[par].sub) : h[par].sub[i].name = sg.name
  IN  IF sg.form = "plain" THEN <<par, pos>> ELSE <<h[par].sub[pos].id, sg.val + 1>>

Resolves(h, l) == Denotes(h, l).status = "ok"

\* C5: when the paths given to upgrade_sublayer resolve, each slot named by
\* a path's final segment (in the resolved parent, or in the Sequential the
\* parent holds under that name) holds the transform's output; every layer
\* keeps its child names, their order and their number, and no other slot
\* changes.
C5_ReplacesExactlyTheSlot ==
  (call.op = "upgrade" /\ \A k \in 1..Len(call.argsegs) : Resolves(call.pre, call.argsegs[k])) =>
    /\ call.exc = ""
    /\ Len(call.invoked) = Len(call.argsegs)
    /\ \A k \in 1..Len(call.argsegs) :
         /\ k <= Len(call.invoked)
         /\ call.invoked[k].layer =
              call.pre[SlotOf(call.pre, call.argsegs[k])[1]].sub[SlotOf(call.pre, call.argsegs[k])[2]].id
         /\ layers[SlotOf(call.pre, call.argsegs[k])[1]].sub[SlotOf(call.pre, call.argsegs[k])[2]].id =
              call.invoked[k].out
    /\ \A n \in DOMAIN call.pre :
         /\ layers[n].cls = call.pre[n].cls
         /\ Names(layers, n) = Names(call.pre, n)
         /\ \A i \in 1..Len(call.pre[n].sub) :
              layers[n].sub[i].id # call.pre[n].sub[i].id =>
                \E k \in 1..Len(call.argsegs) : SlotOf(call.pre, call.argsegs[k]) = <<n, i>>

\* s[2] and b replaced by new layers: s keeps its length
C5_Witness ==
  /\ call.op = "upgrade"
  /\ call.handle_func = "new"
  /\ call.arg = <<<<"s", "[", "2", "]">>, <<"b">>>>
  /\ call.pre = InitLayers
  /\ layers[3].sub[3].id \notin DOMAIN call.pre
  /\ layers[Root].sub[4].id \notin DOMAIN call.pre
  /\ Len(layers[3].sub) = SeqLen

\* the patterns of the call that resolve, in input order
ResolvingPatterns(h, ls, ps) ==
  LET F[k \in 0..Len(ls)] ==
        IF k = 0 THEN <<>>
        ELSE IF Resolves(h, ls[k]) THEN Append(F[k - 1], ps[k]) ELSE F[k - 1]
  IN  F[Len(ls)]

\* C6: upgrade_sublayer returns the sub-list of its patterns that resolved,
\* in input order; a pattern that does not resolve gets no call of the
\* transform, leaves the graph alone and raises nothing to the caller, and
\* the remaining patterns are processed.
C6_ReturnsResolvedPatterns ==
  call.op = "upgrade" =>
    /\ call.exc = ""
    /\ call.hits = ResolvingPatterns(call.pre, call.argsegs, call.arg)
    /\ [k \in 1..Len(call.invoked) |-> call.invoked[k].pattern] = call.hits
    /\ (\A k \in 1..Len(call.argsegs) : ~Resolves(call.pre, call.argsegs[k])) => layers = call.pre

(***************************************************************************)
(* stop_after: claims                                                      *)
(***************************************************************************)
IsIdentity(h, id) == h[id].cls = "Identity"

\* the entries of layer n after position pos are Identity nodes under the
\* names they had, the entries up to pos are the nodes they were
TruncatedAfter(h0, h1, n, pos) ==
  /\ Names(h1, n) = Names(h0, n)
  /\ \A i \in 1..Len(h0[n].sub) :
       IF i <= pos THEN h1[n].sub[i].id = h0[n].sub[i].id
       ELSE IsIdentity(h1, h1[n].sub[i].id)

\* the parent the k-th level of a resolved path is looked up in
LevelParent(steps, k) == IF k = 1 THEN Root ELSE steps[k - 1].layer

\* level k has been truncated: after the matched name in the parent, and
\* after the matched index in the sequence of that name
LevelTruncated(h0, h1, steps, k) ==
  LET par == LevelParent(steps, k)
      pos == CHOOSE i \in 1..Len(h0[par].sub) : h0[par].sub[i].name = steps[k].name
      sq  == h0[par].sub[pos].id
  IN  /\ TruncatedAfter(h0, h1, par, pos)
      /\ IdxTruthy(steps[k].index) =>
           \E j \in 1..Len(h0[sq].sub) :
             /\ h0[sq].sub[j].name = steps[k].index[1]
             /\ TruncatedAfter(h0, h1, sq, j)

Located(h, steps, k) ==
  LET par == LevelParent(steps, k)
  IN  \E i \in 1..Len(h[par].sub) :
        /\ h[par].sub[i].name = steps[k].name
        /\ IdxTruthy(steps[k].index) =>
             \E j \in 1..Len(h[h[par].sub[i].id].sub) :
               h[h[par].sub[i].id].sub[j].name = steps[k].index[1]

\* C8: stop_after on a resolved path returns True exactly when every level
\* locates its segment (name, and index when given); otherwise it stops at
\* the first level that fails and returns False, and the Identity nodes set
\* at the earlier levels stay in the graph.
C8_FailureAbortsWithoutRollback ==
  (call.op = "stop_after" /\ call.parsed.kind = "ok") =>
    LET steps == call.parsed.steps
    IN  /\ call.exc = ""
        /\ call.ret <=> \A k \in 1..Len(steps) : Located(call.pre, steps, k)
        /\ ~call.ret =>
             /\ call.level \in 1..Len(steps)
             /\ ~Located(call.pre, steps, call.level)
             /\ \A k \in 1..(call.level - 1) :
                  /\ Located(call.pre, steps, k)
                  /\ LevelTruncated(call.pre, layers, steps, k)

\* stop_after("a.e[0]") with e an empty Sequential: level 1 has turned b
\* into Identity, level 2 fails, the call returns False
C8_Witness ==
  /\ call.op = "stop_after"
  /\ call.pre = InitLayers
  /\ pat = <<"a", ".", "e", "[", "0", "]">>
  /\ ~call.ret
  /\ call.level = 2
  /\ IsIdentity(layers, layers[Root].sub[4].id)

\* C9: when the path given to stop_after does not resolve, stop_after
\* returns False, raises nothing and leaves the graph as it was.
C9_UnresolvedReturnsFalse ==
  (call.op = "stop_after" /\ call.parsed.kind # "ok") =>
    (call.exc = "" /\ ~call.ret /\ layers = call.pre)

\* the same graph up to the identity of the Identity nodes
SameGraph(h0, h1) ==
  \A n \in DOMAIN h0 :
    /\ n \in DOMAIN h1
    /\ h1[n].cls = h0[n].cls
    /\ Names(h1, n) = Names(h0, n)
    /\ \A i \in 1..Len(h0[n].sub) :
         \/ h1[n].sub[i].id = h0[n].sub[i].id
         \/ IsIdentity(h0, h0[n].sub[i].id) /\ IsIdentity(h1, h1[n].sub[i].id)

\* C10: truncation is idempotent: a stop_after that follows a successful
\* stop_after of the same path succeeds too and yields the same graph (same
\* names and order, same nodes up to the target, Identity after it).
C10_StopAfterIdempotent ==
  [][(call.op = "stop_after" /\ call.ret /\ call'.op = "stop_after" /\ ncalls' = ncalls + 1) =>
       (call'.ret /\ call'.exc = "" /\ call'.arg = call.arg /\ SameGraph(layers, layers'))]_vars

\* a second successful stop_after of a two-level path, made on the graph the
\* first one truncated
C10_Witness ==
  /\ call.op = "stop_after"
  /\ call.ret
  /\ ncalls = 2
  /\ Len(call.parsed.steps) = 2
  /\ call.pre # InitLayers
  /\ call.pre # layers
  /\ SameGraph(call.pre, layers)
  /\ \E n \in DOMAIN call.pre : IsIdentity(call.pre, n)

(***************************************************************************)
(* Capture of sub-layer outputs: update_res, init_res, the forward hooks   *)
(* and a forward pass of the root.                                         *)
(***************************************************************************)
\* number of calls (update_res, stop_after, forward passes) made on one root
MaxSteps == 4

\* the key _return_dict_hook stores the root's own output under
OutputKey == <<"output">>

\* d[key] = the output layer computed in forward pass number pass
DictSet(d, key, pass, layer) ==
  {e \in d : e.key # key} \cup {[key |-> key, pass |-> pass, layer |-> layer]}

\* Handler.__call__(layer, pattern): layer.res_dict and layer.res_name are
\* set and save_sub_res_hook is registered on the layer once (an earlier
\* registration is removed first)
Handler(attrs, layer, pattern, d) ==
  {a \in attrs : a.layer # layer}
    \cup {[layer |-> layer, res_dict |-> d, res_name |-> pattern]}

RECURSIVE HandleAll(_, _, _)
\* the calls upgrade_sublayer makes to the handler, in order
HandleAll(attrs, invoked, d) ==
  IF invoked = <<>> THEN attrs
  ELSE HandleAll(Handler(attrs, invoked[1].layer, invoked[1].pattern, d), Tail(invoked), d)

\* self.update_res(return_patterns): the root gets a new empty dict, the
\* handler (which returns the layer it is given) is applied to every pattern
\* that resolves, and _return_dict_hook is registered on the root once; r is
\* what upgrade_sublayer returns
update_res(h, hk, return_patterns) ==
  CHOOSE x \in
    {[h   |-> r.h,
      hk  |-> [hk EXCEPT !.dicts = Append(hk.dicts, {}),
                         !.root_dict = Len(hk.dicts) + 1,
                         !.attrs = HandleAll(hk.attrs, r.invoked, Len(hk.dicts) + 1),
                         !.root_hooked = IF r.exc = "" THEN TRUE ELSE hk.root_hooked,
                         !.hits = r.hits,
                         !.hitlayers = r.invoked],
      exc |-> r.exc] : r \in {upgrade_sublayer(h, return_patterns, "same")}} : TRUE

\* bool(value) of a return_patterns or return_stages value
PyTruthy(v) ==
  IF v.t = "None" THEN FALSE
  ELSE IF v.t = "list" THEN v.l # <<>>
  ELSE v.l[1] # 0

SeqMax(l) == CHOOSE x \in {l[i] : i \in 1..Len(l)} : \A i \in 1..Len(l) : l[i] <= x

SeqMin(l) == CHOOSE x \in {l[i] : i \in 1..Len(l)} : \A i \in 1..Len(l) : x <= l[i]

\* [val for val in return_stages if val >= 0 and val < n]
LegalStages(l, n) == SelectSeq(l, LAMBDA val : val >= 0 /\ val < n)

\* the patterns init_res hands to update_res (patterns, None when it makes
\* no call), or the exception it raises before
init_res_patterns(stages_pattern, return_patterns, return_stages) ==
  LET n   == Len(stages_pattern)
      rs1 == IF PyTruthy(return_patterns) /\ PyTruthy(return_stages)
             THEN PyNone ELSE return_stages
      rp1 == IF rs1 = PyBool(TRUE) THEN PyList(stages_pattern) ELSE return_patterns
      rs2 == IF rs1.t = "int" THEN PyList(rs1.l) ELSE rs1
  IN  IF rs2.t # "list" THEN [patterns |-> rp1, exc |-> ""]
      ELSE IF rs2.l = <<>> THEN [patterns |-> PyNone, exc |-> "ValueError"]
      ELSE
        LET rs3 == IF SeqMax(rs2.l) > n \/ SeqMin(rs2.l) < 0
                   THEN LegalStages(rs2.l, n) ELSE rs2.l
        IN  IF \E i \in 1..Len(rs3) : rs3[i] >= n
            THEN [patterns |-> PyNone, exc |-> "IndexError"]
            ELSE [patterns |-> PyList([i \in 1..Len(rs3) |-> stages_pattern[rs3[i] + 1]]),
                  exc |-> ""]

\* self.init_res(stages_pattern, return_patterns, return_stages)
init_res(h, hk, stages_pattern, return_patterns, return_stages) ==
  LET p == init_res_patterns(stages_pattern, return_patterns, return_stages)
  IN  IF p.exc # "" THEN [h |-> h, hk |-> hk, updated |-> PyNone, exc |-> p.exc]
      ELSE IF ~PyTruthy(p.patterns) THEN [h |-> h, hk |-> hk, updated |-> PyNone, exc |-> ""]
      ELSE LET r == update_res(h, hk, p.patterns.l)
           IN  [h |-> r.h, hk |-> r.hk, updated |-> p.patterns, exc |-> r.exc]

\* save_sub_res_hook(layer, input, output), for a layer carrying attributes a
save_sub_res_hook(dicts, a, pass) ==
  [dicts EXCEPT ![a.res_dict] = DictSet(@, a.res_name, pass, a.layer)]

\* self._return_dict_hook(layer, input, output): the mapping returned in
\* place of the output, and the dicts after every key was popped
return_dict_hook(dicts, root_dict, pass) ==
  [res   |-> {e \in {[key |-> OutputKey, pass |-> pass, layer |-> Root]} :
                \A c \in dicts[root_dict] : c.key # e.key} \cup dicts[root_dict],
   dicts |-> [dicts EXCEPT ![root_dict] = {}]]

RECURSIVE RunOrder(_, _)
RECURSIVE RunSubs(_, _, _)
RunSubs(h, sub, i) ==
  IF i > Len(sub) THEN <<>> ELSE RunOrder(h, sub[i].id) \o RunSubs(h, sub, i + 1)

\* the layers in the order their forward returns (and their forward post
\* hooks fire) when layer id is called: every forward of the file calls the
\* sub-layers in the order they were added
RunOrder(h, id) == RunSubs(h, h[id].sub, 1) \o <<id>>

RECURSIVE FireHooks(_, _, _, _)
\* the forward post hooks of the layers of order, fired in turn
FireHooks(dicts, attrs, order, pass) ==
  IF order = <<>> THEN dicts
  ELSE IF \A a \in attrs : a.layer # order[1]
  THEN FireHooks(dicts, attrs, Tail(order), pass)
  ELSE FireHooks(save_sub_res_hook(dicts, CHOOSE a \in attrs : a.layer = order[1], pass),
                 attrs, Tail(order), pass)

\* the fields of the capture state that outlive a call
Kept(hk) ==
  [NoHook EXCEPT !.dicts = hk.dicts, !.root_dict = hk.root_dict,
                 !.root_hooked = hk.root_hooked, !.attrs = hk.attrs, !.hits = hk.hits,
                 !.hitlayers = hk.hitlayers, !.npass = hk.npass]

\* the stage patterns of the graph, as MODEL_STAGES_PATTERN["ESNet"] names
\* three blocks of ESNet.blocks
StagesPattern ==
  <<Join(<<IndexedSeg(<<"s">>, 0)>>), Join(<<IndexedSeg(<<"s">>, 2)>>),
    Join(<<IndexedSeg(<<"s">>, SeqLen - 1)>>)>>

\* the pattern lists tried as return_patterns: one block, a block and a
\* layer after it, a name that resolves to nothing before a block, and the
\* same block written "s[2]" and "s.2"
HookLists ==
  {<<Join(<<IndexedSeg(<<"s">>, 2)>>)>>,
   <<Join(<<IndexedSeg(<<"s">>, 2)>>), Join(<<PlainSeg(<<"a">>)>>)>>,
   <<Join(<<PlainSeg(<<"z">>)>>), Join(<<IndexedSeg(<<"s">>, SeqLen - 1)>>)>>,
   <<Join(<<IndexedSeg(<<"s">>, 2)>>), Join(<<PlainSeg(<<"s">>), PlainSeg(<<"2">>)>>)>>,
   <<Join(<<PlainSeg(<<"a">>)>>)>>}

\* the values tried as return_stages
StageValues == (0 - 1)..(Len(StagesPattern) + 1)

ReturnStages ==
  {PyNone, PyBool(TRUE), PyBool(FALSE)}
    \cup {PyIntV(v) : v \in StageValues}
    \cup {PyList(l) : l \in UNION {[1..n -> StageValues] : n \in 0..2}}

ReturnPatterns == {PyNone, PyList(<<>>)} \cup {PyList(l) : l \in HookLists}

\* the paths tried with stop_after between forward passes
HookStops == {Join(<<IndexedSeg(<<"s">>, 1)>>), Join(<<PlainSeg(<<"d">>)>>)}

InitCapture ==
  /\ layers = InitLayers
  /\ segs = <<>>
  /\ pat = <<>>
  /\ call = NoCall
  /\ ncalls = 0
  /\ hook = NoHook
  /\ api = NoApi

\* super().init_res(stages_pattern, return_patterns, return_stages), the
\* last statement of the constructor
InitRes ==
  /\ ncalls = 0
  /\ \E rp \in ReturnPatterns, rs \in ReturnStages :
       \E r \in {init_res(layers, hook, StagesPattern, rp, rs)} :
         /\ layers' = r.h
         /\ hook' = [Kept(r.hk) EXCEPT !.op = "init_res", !.return_patterns = rp,
                                       !.return_stages = rs, !.updated = r.updated,
                                       !.exc = r.exc]
  /\ ncalls' = ncalls + 1
  /\ UNCHANGED <<segs, pat, call, api>>

\* self.update_res(return_patterns)
UpdateRes ==
  /\ ncalls < MaxSteps
  /\ \E l \in HookLists :
       \E r \in {update_res(layers, hook, l)} :
         /\ layers' = r.h
         /\ hook' = [Kept(r.hk) EXCEPT !.op = "update_res", !.updated = PyList(l),
                                       !.exc = r.exc]
  /\ ncalls' = ncalls + 1
  /\ UNCHANGED <<segs, pat, call, api>>

\* self.stop_after(pattern) on a root that may carry hooks
StopAfterHooked ==
  /\ ncalls < MaxSteps
  /\ \E p \in HookStops :
       /\ layers' = stop_after(layers, p).h
       /\ hook' = [Kept(hook) EXCEPT !.op = "stop_after"]
  /\ ncalls' = ncalls + 1
  /\ UNCHANGED <<segs, pat, call, api>>

\* self(x): the forward of k layers returns and their post hooks fire; with
\* k short of all the layers the next forward raises and the exception
\* leaves the pass; else the root's forward returns and its hook, when
\* registered, replaces the output by the mapping
Forward ==
  /\ ncalls < MaxSteps
  /\ \E order \in {RunOrder(layers, Root)} :
       \E k \in 0..Len(order) :
         \E d1 \in {FireHooks(hook.dicts, hook.attrs, SubSeq(order, 1, k), hook.npass + 1)} :
           \E r \in {return_dict_hook(d1, hook.root_dict, hook.npass + 1)} :
             LET pass == hook.npass + 1
                 done == k = Len(order)
             IN  hook' = [Kept(hook) EXCEPT
                            !.op = "forward", !.npass = pass, !.done = done,
                            !.ran = {a \in hook.attrs : \E i \in 1..k : order[i] = a.layer},
                            !.exc = IF done THEN "" ELSE "Exception",
                            !.dicts = IF done /\ hook.root_hooked THEN r.dicts ELSE d1,
                            !.result =
                              IF ~done THEN {}
                              ELSE IF hook.root_hooked THEN r.res
                              ELSE {[key |-> OutputKey, pass |-> pass, layer |-> Root]}]
  /\ ncalls' = ncalls + 1
  /\ UNCHANGED <<layers, segs, pat, call, api>>

NextCapture == InitRes \/ UpdateRes \/ StopAfterHooked \/ Forward

SpecCapture == InitCapture /\ [][NextCapture]_vars

(***************************************************************************)
(* Claims about the capture of sub-layer outputs                           *)
(***************************************************************************)
\* C11: the capture state is reset at the start of each forward pass: over
\* any sequence of forward passes, one that raised after some sub-layer
\* hooks fired included, the mapping a completed pass returns holds no value
\* captured during an earlier pass.
C11_NoStaleCapture ==
  (hook.op = "forward" /\ hook.done) => \A e \in hook.result : e.pass = hook.npass

\* C12: once update_res has registered the hooks, a completed forward pass
\* of the root returns a mapping that holds the root's own output under
\* "output" plus one entry per sub-layer hooked into the root's buffer that
\* ran in this pass, keyed by the layer's pattern label and holding its
\* output of this pass, and the root's res_dict is empty when the root hook
\* has returned.
C12_CompletedPassResult ==
  (hook.op = "forward" /\ hook.done /\ hook.root_hooked) =>
    /\ hook.result =
         {[key |-> OutputKey, pass |-> hook.npass, layer |-> Root]}
           \cup {[key |-> a.res_name, pass |-> hook.npass, layer |-> a.layer] :
                   a \in {x \in hook.ran : x.res_dict = hook.root_dict}}
    /\ hook.dicts[hook.root_dict] = {}

\* the patterns return_stages selects from stages_pattern: all of them for
\* True, those at the legal positions (0 <= value < len(stages_pattern)) of
\* an int or a list
StageSelection(stages_pattern, rs) ==
  IF rs = PyBool(TRUE) THEN stages_pattern
  ELSE IF rs.t \in {"int", "list"}
  THEN LET legal == SelectSeq(rs.l, LAMBDA v : 0 <= v /\ v < Len(stages_pattern))
       IN  [i \in 1..Len(legal) |-> stages_pattern[legal[i] + 1]]
  ELSE <<>>

\* the labels of the layers hooked into the root's buffer
Captured == {a.res_name : a \in {x \in hook.attrs : x.res_dict = hook.root_dict}}

\* C15: in init_res, when return_patterns and return_stages are both set
\* (here: return_stages is True, a legal int or a list of legal ints),
\* return_patterns is ignored: the layers whose outputs are captured are the
\* ones return_stages selects from stages_pattern.
C15_StagesOverridePatterns ==
  (/\ hook.op = "init_res"
   /\ hook.return_patterns.t = "list"
   /\ hook.return_patterns.l # <<>>
   /\ hook.return_stages.t \in {"bool", "int", "list"}
   /\ hook.return_stages # PyBool(FALSE)
   /\ hook.return_stages.l # <<>>
   /\ \A i \in 1..Len(hook.return_stages.l) :
        0 <= hook.return_stages.l[i] /\ hook.return_stages.l[i] < Len(StagesPattern)) =>
    /\ hook.exc = ""
    /\ hook.updated = PyList(StageSelection(StagesPattern, hook.return_stages))
    /\ Captured = {StageSelection(StagesPattern, hook.return_stages)[i] :
                     i \in 1..Len(StageSelection(StagesPattern, hook.return_stages))}

\* C16: in init_res, for every int or list given as return_stages, the
\* illegal values (value < 0 or value >= len(stages_pattern)) are ignored:
\* no exception is raised, a value equal to len(stages_pattern) included,
\* and, return_patterns not being given, the patterns captured are those
\* the legal values select from stages_pattern.
C16_IllegalStagesIgnored ==
  (hook.op = "init_res" /\ hook.return_stages.t \in {"int", "list"}) =>
    /\ hook.exc = ""
    /\ ~PyTruthy(hook.return_patterns) =>
         /\ hook.updated = IF StageSelection(StagesPattern, hook.return_stages) = <<>>
                           THEN PyNone
                           ELSE PyList(StageSelection(StagesPattern, hook.return_stages))
         /\ Captured = {StageSelection(StagesPattern, hook.return_stages)[i] :
                          i \in 1..Len(StageSelection(StagesPattern, hook.return_stages))}

\* C18: after any sequence of update_res calls on a root, the mapping of a
\* completed forward pass holds, besides "output", only keys that are
\* patterns hit by the most recent update_res (a layer hooked by an earlier
\* call and not named by the latest one contributes no key), and every
\* pattern the latest call returned as hit is a key when its layer ran.
C18_OnlyLatestPatterns ==
  (hook.op = "forward" /\ hook.done /\ hook.root_hooked) =>
    /\ \A e \in hook.result :
         e.key = OutputKey \/ \E i \in 1..Len(hook.hits) : hook.hits[i] = e.key
    /\ \A i \in 1..Len(hook.hitlayers) :
         (\E a \in hook.ran : a.layer = hook.hitlayers[i].layer) =>
           \E e \in hook.result : e.key = hook.hitlayers[i].pattern

(***************************************************************************)
(* The hub modules: DarkNet53 (classification, run_cmd) and                *)
(* pixel2style2pixel (style_transfer, run_cmd).                            *)
(*                                                                         *)
(* A path is a string; an image is named by the path it was read from.     *)
(* An optional argument is None or Some(value), as for the indices above.  *)
(***************************************************************************)
\* number of images given to classification
MaxImages == 4
\* largest batch_size given to classification
MaxBatch == 3
\* number of images and of paths given to style_transfer
MaxInputs == 2

\* the files os.path.exists finds
ExistingFiles == {"a.jpg", "b.jpg", "blank.jpg", "list.txt", "bad.txt", "empty.txt"}

\* txt_parser.parse(input_file, use_strip=True): the lines of the file
FileLines(f) ==
  IF f = "list.txt" THEN <<"a.jpg", "b.jpg">>
  ELSE IF f = "bad.txt" THEN <<"a.jpg", "nofile.jpg">>
  ELSE <<>>

\* bool(s) of an optional string
StrTruthy(o) == o # None /\ o # Some("")

\* int(np.ceil(images_num / batch_size)) with the quotient rounded down
loop_num_floor(images_num, batch_size) == images_num \div batch_size

\* int(np.ceil(images_num / batch_size))
loop_num(images_num, batch_size) ==
  IF images_num % batch_size = 0 THEN images_num \div batch_size
  ELSE images_num \div batch_size + 1

RECURSIVE BatchData(_, _, _, _)
\* the inner loop of classification: all_images[handle_id + image_id] is
\* appended for image_id in range(batch_size), an index out of range being
\* passed over by the bare except
BatchData(all_images, handle_id, image_id, batch_size) ==
  IF image_id >= batch_size THEN <<>>
  ELSE (IF handle_id + image_id < Len(all_images)
        THEN <<all_images[handle_id + image_id + 1]>> ELSE <<>>)
         \o BatchData(all_images, handle_id, image_id + 1, batch_size)

RECURSIVE ClassifyLoop(_, _, _, _, _)
\* the iterations iter_id, ... of the outer loop: the predictor returns one
\* row per image of the batch, in order, and each row gives one result with
\* top_k labels
ClassifyLoop(all_images, batch_size, top_k, iter_id, st) ==
  IF iter_id >= loop_num(Len(all_images), batch_size) THEN st
  ELSE
    LET batch_data == BatchData(all_images, iter_id * batch_size, 0, batch_size)
    IN  ClassifyLoop(all_images, batch_size, top_k, iter_id + 1,
                     [batches  |-> Append(st.batches, batch_data),
                      res_list |-> st.res_list \o
                                     [i \in 1..Len(batch_data) |->
                                        [image |-> batch_data[i], labels |-> top_k]]])

\* self.classification(..., batch_size, top_k) once test_reader has yielded
\* all_images
classification(all_images, batch_size, top_k) ==
  ClassifyLoop(all_images, batch_size,
               IF top_k > 1000 THEN 1000 ELSE IF top_k < 1 THEN 1 ELSE top_k,
               0, [batches |-> <<>>, res_list |-> <<>>])

\* self.check_input_data(args)
check_input_data(args) ==
  IF StrTruthy(args.input_path) THEN [input_data |-> <<args.input_path[1]>>, exc |-> ""]
  ELSE IF StrTruthy(args.input_file)
  THEN IF args.input_file[1] \notin ExistingFiles
       THEN [input_data |-> <<>>, exc |-> "RuntimeError"]
       ELSE [input_data |-> FileLines(args.input_file[1]), exc |-> ""]
  ELSE [input_data |-> <<>>, exc |-> ""]

\* DarkNet53.run_cmd(argvs), argvs parsed into args; formatting the message
\* of the RuntimeError for a path that does not exist ("%s or %s" % one
\* string) raises TypeError
DarkNet53_run_cmd(args) ==
  LET c == check_input_data(args)
  IN  IF c.exc # "" THEN [NoOut EXCEPT !.exc = c.exc]
      ELSE IF Len(c.input_data) = 0 THEN [NoOut EXCEPT !.usage = TRUE, !.status = Some(1)]
      ELSE IF \E i \in 1..Len(c.input_data) : c.input_data[i] \notin ExistingFiles
      THEN [NoOut EXCEPT !.exc = "TypeError"]
      ELSE LET r == classification(c.input_data, args.batch_size, 2)
           IN  [NoOut EXCEPT !.inference = TRUE, !.batches = r.batches,
                             !.res_list = r.res_list]

\* the files cv2.imread decodes; for any other path it returns None
ImageFiles == {"a.jpg", "b.jpg", "blank.jpg"}

\* self.network.run(image): the generated image, named as its input, or
\* None for an image the network finds nothing in
NetworkRun(image) == IF image = "blank.jpg" THEN None ELSE Some(image)

\* the number of paths read before cv2.imread(path)[:, :, ::-1] raises
\* (imread(None) raises, imread of an unreadable path returns None, which
\* has no subscript), Len(paths) when none does
ReadablePrefix(paths) ==
  IF \A i \in 1..Len(paths) : paths[i] # None /\ paths[i][1] \in ImageFiles
  THEN Len(paths)
  ELSE (CHOOSE i \in 1..Len(paths) :
          /\ ~(paths[i] # None /\ paths[i][1] \in ImageFiles)
          /\ \A j \in 1..(i - 1) : paths[j] # None /\ paths[j][1] \in ImageFiles) - 1

\* a style_transfer without the test for images and paths both None
style_transfer_unguarded(images, paths, visualization) ==
  IF FALSE THEN NoOut
  ELSE
    LET from_images == IF images # None THEN images[1] ELSE <<>>
        path_list   == IF paths # None THEN paths[1] ELSE <<>>
        k           == ReadablePrefix(path_list)
        from_paths  == [i \in 1..k |-> path_list[i][1]]
        runs        == from_images \o from_paths
        results     == [i \in 1..Len(runs) |-> NetworkRun(runs[i])]
    IN  IF k < Len(path_list)
        THEN [NoOut EXCEPT !.inference = TRUE, !.runs = runs, !.exc = "TypeError"]
        ELSE [NoOut EXCEPT !.inference = TRUE, !.runs = runs,
                           !.output_dir = visualization,
                           !.written = IF visualization
                                       THEN {i - 1 : i \in {j \in 1..Len(results) :
                                                              results[j] # None}}
                                       ELSE {},
                           !.ret = Some(results)]

\* self.style_transfer(images, paths, output_dir, use_gpu, visualization):
\* with visualization the directory output_dir is made when missing and
\* output_{i}.png and output_{i}.npy are written for every result i that is
\* not None
style_transfer(images, paths, visualization) ==
  IF images = None /\ paths = None THEN [NoOut EXCEPT !.inference = TRUE, !.message = TRUE]
  ELSE
    LET from_images == IF images # None THEN images[1] ELSE <<>>
        path_list   == IF paths # None THEN paths[1] ELSE <<>>
        k           == ReadablePrefix(path_list)
        from_paths  == [i \in 1..k |-> path_list[i][1]]
        runs        == from_images \o from_paths
        results     == [i \in 1..Len(runs) |-> NetworkRun(runs[i])]
    IN  IF k < Len(path_list)
        THEN [NoOut EXCEPT !.inference = TRUE, !.runs = runs, !.exc = "TypeError"]
        ELSE [NoOut EXCEPT !.inference = TRUE, !.runs = runs,
                           !.output_dir = visualization,
                           !.written = IF visualization
                                       THEN {i - 1 : i \in {j \in 1..Len(results) :
                                                              results[j] # None}}
                                       ELSE {},
                           !.ret = Some(results)]

\* pixel2style2pixel.run_cmd(argvs), argvs parsed into args
pixel2style2pixel_run_cmd(args) ==
  style_transfer(None, Some(<<args.input_path>>), args.visualization)

OptPaths == {None} \cup {Some(p) : p \in {"", "a.jpg", "nofile.jpg"}}

OptFiles == {None} \cup {Some(f) : f \in {"list.txt", "bad.txt", "empty.txt", "nolist.txt"}}

\* the lists of at most n elements of S
ListsUpTo(S, n) == UNION {[1..k -> S] : k \in 0..n}

InitModules ==
  /\ layers = InitLayers
  /\ segs = <<>>
  /\ pat = <<>>
  /\ call = NoCall
  /\ ncalls = 0
  /\ hook = NoHook
  /\ api = NoApi

\* hub run darknet53_imagenet ...
DarkNet53RunCmd ==
  /\ api.op = "none"
  /\ \E ip \in OptPaths, f \in OptFiles, bs \in 1..MaxBatch :
       LET args == [NoArgs EXCEPT !.input_path = ip, !.input_file = f, !.batch_size = bs]
       IN  api' = [op |-> "run_cmd", mod |-> "DarkNet53", args |-> args,
                   out |-> DarkNet53_run_cmd(args)]
  /\ UNCHANGED <<layers, segs, pat, call, ncalls, hook>>

\* hub run pixel2style2pixel ...
Pixel2Style2PixelRunCmd ==
  /\ api.op = "none"
  /\ \E ip \in OptPaths, v \in BOOLEAN :
       LET args == [NoArgs EXCEPT !.input_path = ip, !.visualization = v]
       IN  api' = [op |-> "run_cmd", mod |-> "pixel2style2pixel", args |-> args,
                   out |-> pixel2style2pixel_run_cmd(args)]
  /\ UNCHANGED <<layers, segs, pat, call, ncalls, hook>>

\* module.style_transfer(images=..., paths=..., visualization=...)
StyleTransfer ==
  /\ api.op = "none"
  /\ \E im \in {None} \cup {Some(l) : l \in ListsUpTo({"a.jpg", "blank.jpg"}, MaxInputs)},
        ps \in {None} \cup {Some(l) : l \in ListsUpTo({Some("a.jpg"), Some("blank.jpg"),
                                                        Some("nofile.jpg")}, MaxInputs)},
        v \in BOOLEAN :
       LET args == [NoArgs EXCEPT !.images = im, !.paths = ps, !.visualization = v]
       IN  api' = [op |-> "style_transfer", mod |-> "pixel2style2pixel", args |-> args,
                   out |-> style_transfer(im, ps, v)]
  /\ UNCHANGED <<layers, segs, pat, call, ncalls, hook>>

\* module.classification(paths, images, batch_size=..., top_k=...), the
\* reader yielding the images all_images (numbered in input order)
Classification ==
  /\ api.op = "none"
  /\ \E n \in 0..MaxImages, bs \in 1..MaxBatch, top_k \in {0, 2, 1001} :
       LET all_images == [i \in 1..n |-> i]
           args == [NoArgs EXCEPT !.all_images = all_images, !.batch_size = bs,
                                  !.top_k = top_k]
           r    == classification(all_images, bs, top_k)
       IN  api' = [op |-> "classification", mod |-> "DarkNet53", args |-> args,
                   out |-> [NoOut EXCEPT !.inference = TRUE,
                                         !.batches = r.batches, !.res_list = r.res_list]]
  /\ UNCHANGED <<layers, segs, pat, call, ncalls, hook>>

NextModules ==
  DarkNet53RunCmd \/ Pixel2Style2PixelRunCmd \/ StyleTransfer \/ Classification

SpecModules == InitModules /\ [][NextModules]_vars

(***************************************************************************)
(* Claims about the hub modules                                            *)
(***************************************************************************)
\* C13: in the run_cmd of every module, a command line that gives no input
\* (no --input_path and, where the module has it, no --input_file) prints
\* the usage and exits with a non-zero status, and inference is not invoked.
C13_MissingInputPrintsUsage ==
  (api.op = "run_cmd" /\ api.args.input_path = None /\ api.args.input_file = None) =>
    /\ api.out.usage
    /\ api.out.status # None
    /\ api.out.status # Some(0)
    /\ ~api.out.inference
    /\ api.out.exc = ""

\* C14: style_transfer called with images and paths both None prints a
\* message and returns None: the network is not run, output_dir is not made,
\* no file is written and no exception is raised.
C14_NoInputOnlyReports ==
  (api.op = "style_transfer" /\ api.args.images = None /\ api.args.paths = None) =>
    /\ api.out.message
    /\ api.out.ret = None
    /\ api.out.runs = <<>>
    /\ ~api.out.output_dir
    /\ api.out.written = {}
    /\ api.out.exc = ""

\* style_transfer(images=None, paths=None, visualization=True) has returned
C14_Witness ==
  /\ api.op = "style_transfer"
  /\ api.args.images = None
  /\ api.args.paths = None
  /\ api.args.visualization
  /\ api.out.message

\* C17: classification of n >= 0 images with batch_size >= 1 makes
\* ceil(n / batch_size) iterations; iteration i feeds the predictor exactly
\* the images at positions i*batch_size .. min((i+1)*batch_size, n) - 1, so
\* that every image is fed once, in input order, and no batch is empty; the
\* list returned has one result per image, in input order; for n = 0 the
\* predictor is not called and the list is empty.
C17_BatchesCoverInputOnce ==
  api.op = "classification" =>
    LET all == api.args.all_images
        n   == Len(all)
        bs  == api.args.batch_size
        b   == api.out.batches
        m   == CHOOSE k \in 0..n : k * bs >= n /\ \A j \in 0..(k - 1) : j * bs < n
    IN  /\ Len(b) = m
        /\ \A i \in 0..(m - 1) :
             LET hi == IF (i + 1) * bs < n THEN (i + 1) * bs ELSE n
             IN  /\ hi > i * bs
                 /\ Len(b[i + 1]) = hi - i * bs
                 /\ \A j \in 1..(hi - i * bs) : b[i + 1][j] = all[i * bs + j]
        /\ Len(api.out.res_list) = n
        /\ \A j \in 1..n : api.out.res_list[j].image = all[j]
        /\ (n = 0 => b = <<>> /\ api.out.res_list = <<>>)

\* a classification whose last batch is not full
C17_Witness ==
  /\ api.op = "classification"
  /\ Len(api.out.batches) >= 2
  /\ Len(api.args.all_images) % api.args.batch_size # 0
  /\ Len(api.out.res_list) = Len(api.args.all_images)

====
